---- MODULE Spec2Model ----
(***************************************************************************)
(* Day 05 (2023) of GeekyAubergine/advent-of-code: the cascading           *)
(* interval-remapping engine of part2_opt.rs, with the point-wise engines  *)
(* of part1.rs and part1_opt.rs it is compared against.                    *)
(*                                                                         *)
(* Values are u64 in part1/part2_opt and i64 in part1_opt; the model uses  *)
(* small naturals, far below either width, so no addition overflows. The   *)
(* one subtraction that can go below 0, seed + count - 1 in                *)
(* Seeds::from_input, panics or wraps as the build decides. The table of   *)
(* part1_attempt_1.rs holds u32, the width the numbers of the puzzle fill, *)
(* and keeps it.                                                           *)
(***************************************************************************)
EXTENDS Integers, Sequences, FiniteSets, TLC

VARIABLES
    map_range,    \* the MapRange an operation of MapRange is called on
    seed_range,   \* the SeedRange handed to MapRange::map_seed_range
    value,        \* the value handed to a point-wise lookup
    map,          \* the Map an operation of Map is called on
    seed_ranges,  \* the Vec<SeedRange> handed to Map::map_seed_ranges / Data::map_seeds
    data,         \* the Data built by Data::from_input (seven Maps and the seeds)
    input,        \* the puzzle input: the numbers of the seeds line and the seven map sections
    workers,      \* one entry per seed range while the ranges are evaluated side by side
    pc,           \* the operation that returned last ("idle" before any call)
    ret           \* what that operation returned

vars == <<map_range, seed_range, value, map, seed_ranges, data, input, workers, pc, ret>>

----------------------------------------------------------------------------
(* Bounds of the model *)

MaxVal == 2        \* source starts and destination starts range over 0..MaxVal
MaxRange == 2      \* the length of a rule ranges over 0..MaxRange
MaxRules == 2      \* a Map holds at most MaxRules rules
MaxSeeds == 1      \* a list of seed ranges handed to a stage holds 1..MaxSeeds ranges
MaxDataRules == 1  \* the seven Maps of a Data hold at most MaxDataRules rules in all
MaxLine == 4       \* the seeds line holds at most MaxLine numbers, each in 0..MaxVal
MaxBatch == 2      \* at most MaxBatch seed ranges are evaluated as one batch or side by side

Values == 0..MaxVal

(* seed values reach one past the largest source start *)
SeedValues == 0..(MaxVal + 1)

----------------------------------------------------------------------------
(* part2_opt.rs: SeedRange *)

SeedRange_new(start, end) == [start |-> start, end |-> end]

is_empty(self) == self.start = self.end

(* part2_opt.rs: MapRange *)

MapRange_new(destination_start, source_start, range) ==
    [destination_start |-> destination_start,
     source_start |-> source_start,
     range |-> range]

(* contains_value with the end of the source range taken as inclusive *)
contains_value_inclusive(self, v) ==
    v >= self.source_start /\ v <= self.source_start + self.range

contains_value(self, v) ==
    v >= self.source_start /\ v < self.source_start + self.range

(* map_value adding the destination start to the value itself *)
map_value_no_offset(self, v) ==
    IF ~contains_value(self, v)
    THEN v
    ELSE self.destination_start + v

map_value(self, v) ==
    IF ~contains_value(self, v)
    THEN v
    ELSE LET offset == v - self.source_start
         IN  self.destination_start + offset

map_contained_seed_range(self, sr) ==
    IF sr.start < self.source_start /\ sr.end < self.source_start
    THEN FALSE
    ELSE IF sr.start >= self.source_start + self.range
            /\ sr.end >= self.source_start + self.range
         THEN FALSE
         ELSE TRUE

(* map_seed_range whose second guard lets a candidate that starts at
   source_start + range through *)
map_seed_range_after_gt(self, sr) ==
    IF sr.end < self.source_start
    THEN <<sr>>
    ELSE IF sr.start > self.source_start + self.range
    THEN <<sr>>
    ELSE IF sr.start >= self.source_start /\ sr.end <= self.source_start + self.range
    THEN <<SeedRange_new(map_value(self, sr.start), map_value(self, sr.end))>>
    ELSE IF sr.start < self.source_start /\ sr.end <= self.source_start + self.range
    THEN <<SeedRange_new(sr.start, self.source_start - 1),
           SeedRange_new(map_value(self, self.source_start),
                         map_value(self, map_value(self, sr.end)))>>
    ELSE IF sr.start >= self.source_start /\ sr.end > self.source_start + self.range
    THEN <<SeedRange_new(map_value(self, sr.start),
                         map_value(self, self.source_start + self.range - 1)),
           SeedRange_new(self.source_start + self.range, sr.end)>>
    ELSE <<SeedRange_new(sr.start, self.source_start - 1),
           SeedRange_new(map_value(self, self.source_start),
                         map_value(self, self.source_start + self.range - 1)),
           SeedRange_new(self.source_start + self.range, sr.end)>>

map_seed_range(self, sr) ==
    IF sr.end < self.source_start
    THEN <<sr>>
    ELSE IF sr.start >= self.source_start + self.range
    THEN <<sr>>
    ELSE IF sr.start >= self.source_start /\ sr.end <= self.source_start + self.range
    THEN LET start == map_value(self, sr.start)
             end == map_value(self, sr.end)
         IN  <<SeedRange_new(start, end)>>
    ELSE IF sr.start < self.source_start /\ sr.end <= self.source_start + self.range
    THEN LET end == map_value(self, sr.end)
         IN  <<SeedRange_new(sr.start, self.source_start - 1),
               SeedRange_new(map_value(self, self.source_start), map_value(self, end))>>
    ELSE IF sr.start >= self.source_start /\ sr.end > self.source_start + self.range
    THEN LET start == map_value(self, sr.start)
             map_end == map_value(self, self.source_start + self.range - 1)
         IN  <<SeedRange_new(start, map_end),
               SeedRange_new(self.source_start + self.range, sr.end)>>
    ELSE LET before_range == SeedRange_new(sr.start, self.source_start - 1)
             in_range == SeedRange_new(map_value(self, self.source_start),
                                       map_value(self, self.source_start + self.range - 1))
             after_range == SeedRange_new(self.source_start + self.range, sr.end)
         IN  (IF ~is_empty(before_range) THEN <<before_range>> ELSE <<>>)
             \o <<in_range>>
             \o (IF ~is_empty(after_range) THEN <<after_range>> ELSE <<>>)

(* part2_opt.rs: Map (a Map is its Vec<MapRange> mapped_ranges) *)

RECURSIVE find_map_range(_, _)
find_map_range(mapped_ranges, v) ==
    IF mapped_ranges = <<>>
    THEN <<>>
    ELSE IF contains_value(Head(mapped_ranges), v)
         THEN <<Head(mapped_ranges)>>
         ELSE find_map_range(Tail(mapped_ranges), v)

get_mapped_value(self, v) ==
    LET found == find_map_range(self, v)
    IN  IF found = <<>> THEN v ELSE map_value(found[1], v)

(* the inner loop leaving at the first rule that matches *)
RECURSIVE map_seed_ranges_rules_break(_, _, _)
map_seed_ranges_rules_break(self, i, sr) ==
    IF i > Len(self)
    THEN <<>>
    ELSE IF map_contained_seed_range(self[i], sr)
         THEN map_seed_range(self[i], sr)
         ELSE map_seed_ranges_rules_break(self, i + 1, sr)

(* the inner loop of map_seed_ranges over one seed_range: the pieces pushed
   by the rules from index i on *)
RECURSIVE map_seed_ranges_rules(_, _, _)
map_seed_ranges_rules(self, i, sr) ==
    IF i > Len(self)
    THEN <<>>
    ELSE (IF map_contained_seed_range(self[i], sr)
          THEN map_seed_range(self[i], sr)
          ELSE <<>>)
         \o map_seed_ranges_rules(self, i + 1, sr)

(* the flag set by the first rule only *)
mapped_flag_first(self, sr) ==
    Len(self) >= 1 /\ map_contained_seed_range(self[1], sr)

mapped_flag(self, sr) ==
    \E i \in 1..Len(self) : map_contained_seed_range(self[i], sr)

(* map_seed_ranges that maps the first range of the list and drops the rest *)
map_seed_ranges_head_only(self, srs) ==
    IF srs = <<>>
    THEN <<>>
    ELSE IF mapped_flag(self, Head(srs))
         THEN map_seed_ranges_rules(self, 1, Head(srs))
         ELSE <<Head(srs)>>

(* map_seed_ranges pushing the seed range itself whether a rule took it or
   not *)
RECURSIVE map_seed_ranges_always_push(_, _)
map_seed_ranges_always_push(self, srs) ==
    IF srs = <<>>
    THEN <<>>
    ELSE map_seed_ranges_rules(self, 1, Head(srs))
         \o <<Head(srs)>>
         \o map_seed_ranges_always_push(self, Tail(srs))

(* map_seed_ranges without the push of a seed range that no rule took *)
RECURSIVE map_seed_ranges_mapped_only(_, _)
map_seed_ranges_mapped_only(self, srs) ==
    IF srs = <<>>
    THEN <<>>
    ELSE map_seed_ranges_rules(self, 1, Head(srs))
         \o map_seed_ranges_mapped_only(self, Tail(srs))

RECURSIVE map_seed_ranges(_, _)
map_seed_ranges(self, srs) ==
    IF srs = <<>>
    THEN <<>>
    ELSE (IF mapped_flag(self, Head(srs))
          THEN map_seed_ranges_rules(self, 1, Head(srs))
          ELSE <<Head(srs)>>)
         \o map_seed_ranges(self, Tail(srs))

(* part2_opt.rs: Data and process *)

Min(S) == CHOOSE x \in S : \A y \in S : x <= y

Starts(srs) == {srs[i].start : i \in 1..Len(srs)}

(* what a call returns: a value, an Err(..) or a panic *)
Ok(v) == [tag |-> "Ok", val |-> v]
Err(e) == [tag |-> e, val |-> 0]
Panic == [tag |-> "panic", val |-> 0]

(* map_seeds with the water_to_light stage ahead of fertilizer_to_water *)
map_seeds_light_first(self, srs) ==
    LET soil == map_seed_ranges(self.seed_to_soil_map, srs)
        fertilizer == map_seed_ranges(self.soil_to_fertilizer_map, soil)
        light == map_seed_ranges(self.water_to_light_map, fertilizer)
        water == map_seed_ranges(self.fertilizer_to_water_map, light)
        temperature == map_seed_ranges(self.light_to_temperature_map, water)
        humidity == map_seed_ranges(self.temparure_to_humity_map, temperature)
        location == map_seed_ranges(self.humidity_to_location_map, humidity)
    IN  IF location = <<>> THEN Panic ELSE Ok(Min(Starts(location)))

map_seeds(self, srs) ==
    LET soil == map_seed_ranges(self.seed_to_soil_map, srs)
        fertilizer == map_seed_ranges(self.soil_to_fertilizer_map, soil)
        water == map_seed_ranges(self.fertilizer_to_water_map, fertilizer)
        light == map_seed_ranges(self.water_to_light_map, water)
        temperature == map_seed_ranges(self.light_to_temperature_map, light)
        humidity == map_seed_ranges(self.temparure_to_humity_map, temperature)
        location == map_seed_ranges(self.humidity_to_location_map, humidity)
    IN  IF location = <<>> THEN Panic ELSE Ok(Min(Starts(location)))

(* process returning the location of the first seed range *)
process_first_seed(self) ==
    IF self.seeds = <<>>
    THEN Err("NoMinValue")
    ELSE map_seeds(self, <<self.seeds[1]>>)

process(self) ==
    LET results == [i \in 1..Len(self.seeds) |-> map_seeds(self, <<self.seeds[i]>>)]
    IN  IF \E i \in 1..Len(results) : results[i] = Panic
        THEN Panic
        ELSE IF results = <<>>
        THEN Err("NoMinValue")
        ELSE Ok(Min({results[i].val : i \in 1..Len(results)}))

----------------------------------------------------------------------------
(* part1.rs: MapRange and Map *)

Part1_contains_value(self, v) ==
    v >= self.source_start /\ v < self.source_start + self.range

Part1_map_value(self, v) ==
    IF ~Part1_contains_value(self, v)
    THEN v
    ELSE LET offset == v - self.source_start
         IN  self.destination_start + offset

RECURSIVE Part1_get_mapped_value(_, _)
Part1_get_mapped_value(mapped_values, v) ==
    IF mapped_values = <<>>
    THEN v
    ELSE IF Part1_contains_value(Head(mapped_values), v)
         THEN Part1_map_value(Head(mapped_values), v)
         ELSE Part1_get_mapped_value(Tail(mapped_values), v)

----------------------------------------------------------------------------
(* part1_opt.rs: Range, MapRange and Map *)

Range_new(start, end) == [start |-> start, end |-> end]

Range_contains(self, v) == v >= self.start /\ v < self.end

Opt_MapRange_new(destination_start, source_start, range) ==
    [source_range |-> Range_new(source_start, source_start + range),
     mapping_offset |-> destination_start - source_start]

Opt_MapRange_apply_to_value(self, v) ==
    IF Range_contains(self.source_range, v)
    THEN v + self.mapping_offset
    ELSE v

RECURSIVE Opt_Map_apply_to_value(_, _)
Opt_Map_apply_to_value(mapped_ranges, v) ==
    IF mapped_ranges = <<>>
    THEN v
    ELSE IF Range_contains(Head(mapped_ranges).source_range, v)
         THEN Opt_MapRange_apply_to_value(Head(mapped_ranges), v)
         ELSE Opt_Map_apply_to_value(Tail(mapped_ranges), v)

(* the rules of one map section as maps_from_input builds them from the
   triples of its lines *)
Opt_Map_new(triples) ==
    [i \in 1..Len(triples) |->
        Opt_MapRange_new(triples[i].destination_start,
                         triples[i].source_start,
                         triples[i].range)]

----------------------------------------------------------------------------
(* Inputs *)

MapRanges == {MapRange_new(d, s, r) : d \in Values, s \in Values, r \in 0..MaxRange}

SeedRanges == {sr \in {SeedRange_new(a, b) : a \in SeedValues, b \in SeedValues} :
                  sr.start <= sr.end}

SeqsUpTo(S, n) == UNION {[1..k -> S] : k \in 0..n}

(* every Map of at most MaxRules rules *)
Maps == SeqsUpTo(MapRanges, MaxRules)

SourceEnd(self) == self.source_start + self.range - 1

Source(self) == self.source_start..SourceEnd(self)

(* the Maps of n rules of length >= 1 with pairwise-disjoint source ranges,
   which is what the puzzle input gives *)
RECURSIVE DisjointMapsOfLen(_)
DisjointMapsOfLen(n) ==
    IF n = 0
    THEN {<<>>}
    ELSE UNION {{Append(m, r) :
                    r \in {x \in MapRanges :
                              /\ x.range >= 1
                              /\ \A i \in 1..Len(m) : Source(x) \cap Source(m[i]) = {}}} :
                m \in DisjointMapsOfLen(n - 1)}

DisjointMapsUpTo(n) == UNION {DisjointMapsOfLen(k) : k \in 0..n}

SeedRangeLists == SeqsUpTo(SeedRanges, MaxSeeds) \ {<<>>}

(* the map of tests::it_should_parse_map and the values it looks up *)
seed_to_soil_example == <<MapRange_new(50, 98, 2), MapRange_new(52, 50, 48)>>

DisjointRules(m) ==
    \A i, j \in 1..Len(m) : i # j => Source(m[i]) \cap Source(m[j]) = {}

ProperRules(m) == \A i \in 1..Len(m) : m[i].range >= 1

NumStages == 7
(* example1.txt, the fixture of the tests of day 05 *)
example1_stages ==
    <<seed_to_soil_example,
      <<MapRange_new(0, 15, 37), MapRange_new(37, 52, 2), MapRange_new(39, 0, 15)>>,
      <<MapRange_new(49, 53, 8), MapRange_new(0, 11, 42), MapRange_new(42, 0, 7),
        MapRange_new(57, 7, 4)>>,
      <<MapRange_new(88, 18, 7), MapRange_new(18, 25, 70)>>,
      <<MapRange_new(45, 77, 23), MapRange_new(81, 45, 19), MapRange_new(68, 64, 13)>>,
      <<MapRange_new(0, 69, 1), MapRange_new(1, 0, 69)>>,
      <<MapRange_new(60, 56, 37), MapRange_new(56, 93, 4)>>>>

(* tests::it_should_map_range_single: [79,79] before each of the seven
   stages of the example, and after the last *)
single_chain == <<79, 81, 81, 81, 74, 78, 78, 82>>

NoMapRange == MapRange_new(0, 0, 0)
NoSeedRange == SeedRange_new(0, 0)
NoData == <<>>
NoInput == [seeds |-> <<>>, maps |-> <<>>]

----------------------------------------------------------------------------
(* One rule: MapRange::map_seed_range and MapRange::map_value *)

InitRule ==
    /\ map_range \in MapRanges
    /\ seed_range \in SeedRanges
    /\ value \in 0..(MaxVal + MaxRange)
    /\ map = <<>>
    /\ seed_ranges = <<>>
    /\ data = NoData
    /\ input = NoInput
    /\ workers = <<>>
    /\ pc = "idle"
    /\ ret = <<>>

MapSeedRange ==
    /\ pc = "idle"
    /\ pc' = "map_seed_range"
    /\ ret' = map_seed_range(map_range, seed_range)
    /\ UNCHANGED <<map_range, seed_range, value, map, seed_ranges, data, input, workers>>

MapValue ==
    /\ pc = "idle"
    /\ pc' = "map_value"
    /\ ret' = map_value(map_range, value)
    /\ UNCHANGED <<map_range, seed_range, value, map, seed_ranges, data, input, workers>>

NextRule == MapSeedRange \/ MapValue

SpecRule == InitRule /\ [][NextRule]_vars

----------------------------------------------------------------------------
(* One stage: Map::map_seed_ranges on a list of seed ranges *)

InitStage ==
    /\ map \in DisjointMapsUpTo(MaxRules)
    /\ seed_ranges \in SeedRangeLists
    /\ map_range = NoMapRange
    /\ seed_range = NoSeedRange
    /\ value = 0
    /\ data = NoData
    /\ input = NoInput
    /\ workers = <<>>
    /\ pc = "idle"
    /\ ret = <<>>

MapSeedRanges ==
    /\ pc = "idle"
    /\ pc' = "map_seed_ranges"
    /\ ret' = map_seed_ranges(map, seed_ranges)
    /\ UNCHANGED <<map_range, seed_range, value, map, seed_ranges, data, input, workers>>

NextStage == MapSeedRanges

SpecStage == InitStage /\ [][NextStage]_vars

----------------------------------------------------------------------------
(* One stage on one seed range: any Map whose sources are pairwise disjoint,
   rules of length 0 (an empty source, which Map::from_input accepts)
   included, the stages of the example on the ranges of
   tests::it_should_map_range_single, and a Map with no rule on [10,20] *)

InitStageOne ==
    /\ \/ /\ map \in Maps
          /\ DisjointRules(map)
          /\ seed_ranges \in {<<sr>> : sr \in SeedRanges}
       \/ \E k \in 1..NumStages :
             /\ map = example1_stages[k]
             /\ seed_ranges = <<SeedRange_new(single_chain[k], single_chain[k])>>
       \/ map = <<>> /\ seed_ranges = <<SeedRange_new(10, 20)>>
    /\ map_range = NoMapRange
    /\ seed_range = NoSeedRange
    /\ value = 0
    /\ data = NoData
    /\ input = NoInput
    /\ workers = <<>>
    /\ pc = "idle"
    /\ ret = <<>>

NextStageOne == MapSeedRanges

SpecStageOne == InitStageOne /\ [][NextStageOne]_vars

----------------------------------------------------------------------------
(* Point-wise lookup in one Map: part2_opt, part1 and part1_opt *)

(* the values tests::it_should_parse_map looks up *)
ExampleValues == {0, 1, 48, 49, 50, 51, 96, 97, 98, 99, 79, 14, 55, 13}

InitLookup ==
    /\ \/ map \in Maps /\ value \in 0..(MaxVal + MaxRange)
       \/ map = seed_to_soil_example /\ value \in ExampleValues
    /\ seed_ranges = <<>>
    /\ map_range = NoMapRange
    /\ seed_range = NoSeedRange
    /\ data = NoData
    /\ input = NoInput
    /\ workers = <<>>
    /\ pc = "idle"
    /\ ret = <<>>

GetMappedValue ==
    /\ pc = "idle"
    /\ pc' = "get_mapped_value"
    /\ ret' = get_mapped_value(map, value)
    /\ UNCHANGED <<map_range, seed_range, value, map, seed_ranges, data, input, workers>>

Part1GetMappedValue ==
    /\ pc = "idle"
    /\ pc' = "part1_get_mapped_value"
    /\ ret' = Part1_get_mapped_value(map, value)
    /\ UNCHANGED <<map_range, seed_range, value, map, seed_ranges, data, input, workers>>

OptApplyToValue ==
    /\ pc = "idle"
    /\ pc' = "part1_opt_apply_to_value"
    /\ ret' = Opt_Map_apply_to_value(Opt_Map_new(map), value)
    /\ UNCHANGED <<map_range, seed_range, value, map, seed_ranges, data, input, workers>>

NextLookup == GetMappedValue \/ Part1GetMappedValue \/ OptApplyToValue

SpecLookup == InitLookup /\ [][NextLookup]_vars

----------------------------------------------------------------------------
(* The pipeline: Data::map_seeds and process on a Data of seven Maps *)


Data_new(seeds, stages) ==
    [seeds |-> seeds,
     seed_to_soil_map |-> stages[1],
     soil_to_fertilizer_map |-> stages[2],
     fertilizer_to_water_map |-> stages[3],
     water_to_light_map |-> stages[4],
     light_to_temperature_map |-> stages[5],
     temparure_to_humity_map |-> stages[6],
     humidity_to_location_map |-> stages[7]]

StagesOf(self) ==
    <<self.seed_to_soil_map, self.soil_to_fertilizer_map,
      self.fertilizer_to_water_map, self.water_to_light_map,
      self.light_to_temperature_map, self.temparure_to_humity_map,
      self.humidity_to_location_map>>

(* the ways to spread n rules over the stages from index i on *)
RECURSIVE StageLists(_, _)
StageLists(i, n) ==
    IF i > NumStages
    THEN {<<>>}
    ELSE UNION {{<<m>> \o rest : rest \in StageLists(i + 1, n - Len(m))} :
                    m \in DisjointMapsUpTo(n)}

(* a seeds line of no or one range: process maps every range of the line on
   its own; the lines of two ranges are those of the fixture *)
SeedLines == {<<>>} \cup {<<sr>> : sr \in SeedRanges}

ExampleSeedLines ==
    {<<SeedRange_new(79, 92), SeedRange_new(55, 67)>>,
     <<SeedRange_new(79, 93), SeedRange_new(55, 68)>>,
     <<SeedRange_new(79, 79)>>}

InitPipeline ==
    /\ \/ \E stages \in StageLists(1, MaxDataRules) : \E seeds \in SeedLines :
              data = Data_new(seeds, stages)
       \/ \E seeds \in ExampleSeedLines : data = Data_new(seeds, example1_stages)
    /\ seed_ranges = data.seeds
    /\ map = <<>>
    /\ map_range = NoMapRange
    /\ seed_range = NoSeedRange
    /\ value = 0
    /\ input = NoInput
    /\ workers = <<>>
    /\ pc = "idle"
    /\ ret = <<>>

MapSeeds ==
    /\ pc = "idle"
    /\ seed_ranges # <<>>
    /\ pc' = "map_seeds"
    /\ ret' = map_seeds(data, seed_ranges)
    /\ UNCHANGED <<map_range, seed_range, value, map, seed_ranges, data, input, workers>>

Process ==
    /\ pc = "idle"
    /\ pc' = "process"
    /\ ret' = process(data)
    /\ UNCHANGED <<map_range, seed_range, value, map, seed_ranges, data, input, workers>>

NextPipeline == MapSeeds \/ Process

SpecPipeline == InitPipeline /\ [][NextPipeline]_vars

----------------------------------------------------------------------------
(* The seeds line: Seeds::from_input of part2_opt, part1_opt and part1 on the
   numbers of the line *)

(* u64 arithmetic wraps modulo 2^64 when overflow checks are off; the model
   scales the word down to 2^16, every other value of the model staying far
   below it *)
U64_MODULUS == 65536

(* part2_opt.rs: chunks(2), seed_pair[0], seed_pair[1] (which panics on a
   last chunk of one number) and SeedRange::new(seed, seed + count - 1),
   whose subtraction panics below 0 under overflow checks and wraps without *)
RECURSIVE Seeds_from_input(_, _)
Seeds_from_input(numbers, overflow_checks) ==
    IF numbers = <<>>
    THEN Ok(<<>>)
    ELSE IF Len(numbers) = 1
    THEN Panic
    ELSE LET seed == numbers[1]
             count == numbers[2]
         IN  IF seed + count < 1 /\ overflow_checks
             THEN Panic
             ELSE LET rest == Seeds_from_input(SubSeq(numbers, 3, Len(numbers)),
                                               overflow_checks)
                  IN  IF rest.tag # "Ok"
                      THEN rest
                      ELSE Ok(<<SeedRange_new(seed, (seed + count - 1) % U64_MODULUS)>>
                              \o rest.val)

(* part1_opt.rs: chunks(2) and Range::new(seed, seed + count) *)
RECURSIVE Opt_Seeds_from_input(_)
Opt_Seeds_from_input(numbers) ==
    IF numbers = <<>>
    THEN Ok(<<>>)
    ELSE IF Len(numbers) = 1
    THEN Panic
    ELSE LET seed == numbers[1]
             count == numbers[2]
             rest == Opt_Seeds_from_input(SubSeq(numbers, 3, Len(numbers)))
         IN  IF rest.tag # "Ok"
             THEN rest
             ELSE Ok(<<Range_new(seed, seed + count)>> \o rest.val)

(* part1.rs: every number of the line is a seed *)
Part1_Seeds_from_input(numbers) == Ok(numbers)

Lines == SeqsUpTo(Values, MaxLine)

EmptySections == [k \in 1..NumStages |-> <<>>]

InitSeeds ==
    /\ input \in {[seeds |-> l, maps |-> EmptySections] : l \in Lines}
    /\ map_range = NoMapRange
    /\ seed_range = NoSeedRange
    /\ value = 0
    /\ map = <<>>
    /\ seed_ranges = <<>>
    /\ data = NoData
    /\ workers = <<>>
    /\ pc = "idle"
    /\ ret = <<>>

SeedsFromInput ==
    /\ pc = "idle"
    /\ pc' = "seeds_from_input"
    /\ \E overflow_checks \in BOOLEAN :
          ret' = Seeds_from_input(input.seeds, overflow_checks)
    /\ UNCHANGED <<map_range, seed_range, value, map, seed_ranges, data, input, workers>>

OptSeedsFromInput ==
    /\ pc = "idle"
    /\ pc' = "part1_opt_seeds_from_input"
    /\ ret' = Opt_Seeds_from_input(input.seeds)
    /\ UNCHANGED <<map_range, seed_range, value, map, seed_ranges, data, input, workers>>

Part1SeedsFromInput ==
    /\ pc = "idle"
    /\ pc' = "part1_seeds_from_input"
    /\ ret' = Part1_Seeds_from_input(input.seeds)
    /\ UNCHANGED <<map_range, seed_range, value, map, seed_ranges, data, input, workers>>

NextSeeds == SeedsFromInput \/ OptSeedsFromInput \/ Part1SeedsFromInput

SpecSeeds == InitSeeds /\ [][NextSeeds]_vars

----------------------------------------------------------------------------
(* process of part1, part1_opt and part2_opt on one puzzle input *)

(* part1.rs: Data::map_seed and process *)
Part1_map_seed(self, seed) ==
    LET soil == Part1_get_mapped_value(self.seed_to_soil_map, seed)
        fertilizer == Part1_get_mapped_value(self.soil_to_fertilizer_map, soil)
        water == Part1_get_mapped_value(self.fertilizer_to_water_map, fertilizer)
        light == Part1_get_mapped_value(self.water_to_light_map, water)
        temperature == Part1_get_mapped_value(self.light_to_temperature_map, light)
        humidity == Part1_get_mapped_value(self.temparure_to_humity_map, temperature)
    IN  Part1_get_mapped_value(self.humidity_to_location_map, humidity)

Part1_process(inp) ==
    LET self == Data_new(Part1_Seeds_from_input(inp.seeds).val, inp.maps)
    IN  IF self.seeds = <<>>
        THEN Err("NoMinValue")
        ELSE Ok(Min({Part1_map_seed(self, self.seeds[i]) : i \in 1..Len(self.seeds)}))

(* maps_from_input without the push that follows the loop *)
Opt_maps_from_input_no_last_push(sections) ==
    <<Opt_Map_new(<<>>)>> \o [k \in 1..(Len(sections) - 1) |-> Opt_Map_new(sections[k])]

(* part1_opt.rs: maps_from_input pushes the rules collected so far at every
   "map:" header, the first header included, and once more at the end *)
Opt_maps_from_input(sections) ==
    <<Opt_Map_new(<<>>)>> \o [k \in 1..Len(sections) |-> Opt_Map_new(sections[k])]

RECURSIVE Opt_process_seed(_, _)
Opt_process_seed(seed, maps) ==
    IF maps = <<>>
    THEN seed
    ELSE Opt_process_seed(Opt_Map_apply_to_value(Head(maps), seed), Tail(maps))

(* min().unwrap() panics when there is no seed *)
Opt_process(inp) ==
    LET seeds == Opt_Seeds_from_input(inp.seeds)
        maps == Opt_maps_from_input(inp.maps)
    IN  IF seeds.tag # "Ok"
        THEN Panic
        ELSE IF seeds.val = <<>>
        THEN Panic
        ELSE Ok(Min({Opt_process_seed(seeds.val[i].start, maps) :
                        i \in 1..Len(seeds.val)}))

(* part2_opt.rs: process from the input, Data::from_input first *)
process_from_input(inp, overflow_checks) ==
    LET seeds == Seeds_from_input(inp.seeds, overflow_checks)
    IN  IF seeds.tag # "Ok"
        THEN Panic
        ELSE process(Data_new(seeds.val, inp.maps))

(* the seven map sections with one rule between them, or none *)
OneRuleStages == StageLists(1, 1)

(* the seeds line of example1.txt *)
example1_seeds == <<79, 14, 55, 13>>

InitProcess ==
    /\ \/ input \in {[seeds |-> l, maps |-> st] : l \in Lines, st \in OneRuleStages}
       \/ input = [seeds |-> example1_seeds, maps |-> example1_stages]
       \/ input = [seeds |-> <<>>, maps |-> example1_stages]
    /\ map_range = NoMapRange
    /\ seed_range = NoSeedRange
    /\ value = 0
    /\ map = <<>>
    /\ seed_ranges = <<>>
    /\ data = NoData
    /\ workers = <<>>
    /\ pc = "idle"
    /\ ret = <<>>

Part1Process ==
    /\ pc = "idle"
    /\ pc' = "part1_process"
    /\ ret' = Part1_process(input)
    /\ UNCHANGED <<map_range, seed_range, value, map, seed_ranges, data, input, workers>>

OptProcess ==
    /\ pc = "idle"
    /\ pc' = "part1_opt_process"
    /\ ret' = Opt_process(input)
    /\ UNCHANGED <<map_range, seed_range, value, map, seed_ranges, data, input, workers>>

ProcessFromInput ==
    /\ pc = "idle"
    /\ pc' = "part2_opt_process"
    /\ \E overflow_checks \in BOOLEAN :
          ret' = process_from_input(input, overflow_checks)
    /\ UNCHANGED <<map_range, seed_range, value, map, seed_ranges, data, input, workers>>

NextProcess == Part1Process \/ OptProcess \/ ProcessFromInput

SpecProcess == InitProcess /\ [][NextProcess]_vars

----------------------------------------------------------------------------
(* A batch of seed ranges: Data::map_seeds on the whole list and process,
   which hands map_seeds one range at a time *)

(* the seed ranges within 0..MaxVal, in lists of 1..MaxBatch *)
BatchRanges == {sr \in SeedRanges : sr.end <= MaxVal}

BatchLists == SeqsUpTo(BatchRanges, MaxBatch) \ {<<>>}

InitBatch ==
    /\ \/ \E stages \in OneRuleStages : \E seeds \in BatchLists :
              data = Data_new(seeds, stages)
       \/ \E seeds \in ExampleSeedLines : data = Data_new(seeds, example1_stages)
    /\ seed_ranges = data.seeds
    /\ map = <<>>
    /\ map_range = NoMapRange
    /\ seed_range = NoSeedRange
    /\ value = 0
    /\ input = NoInput
    /\ workers = <<>>
    /\ pc = "idle"
    /\ ret = <<>>

NextBatch == MapSeeds \/ Process

SpecBatch == InitBatch /\ [][NextBatch]_vars

----------------------------------------------------------------------------
(* One worker per seed range. process walks the seed ranges in order; here
   each range gets a worker that calls map_seeds on it against the shared
   Data, the workers finish in any order and their results are folded into
   ret with min in any order *)

(* the seed ranges of one value, in lists of 0..MaxBatch *)
WorkerLists == SeqsUpTo({sr \in BatchRanges : sr.start = sr.end}, MaxBatch)

NoResult == Err("NoMinValue")

(* min of two results; the minimum of no result is NoMinValue and a panic of
   a worker reaches the caller *)
MinResult(a, b) ==
    IF a.tag = "panic" \/ b.tag = "panic" THEN Panic
    ELSE IF a.tag = "NoMinValue" THEN b
    ELSE IF b.tag = "NoMinValue" THEN a
    ELSE IF a.val <= b.val THEN a ELSE b

InitWorkers ==
    /\ \E stages \in OneRuleStages : \E seeds \in WorkerLists :
           data = Data_new(seeds, stages)
    /\ seed_ranges = data.seeds
    /\ map = <<>>
    /\ map_range = NoMapRange
    /\ seed_range = NoSeedRange
    /\ value = 0
    /\ input = NoInput
    /\ workers = <<>>
    /\ pc = "idle"
    /\ ret = <<>>

Spawn ==
    /\ pc = "idle"
    /\ pc' = "workers"
    /\ workers' = [i \in 1..Len(data.seeds) |-> [state |-> "todo", result |-> NoResult]]
    /\ ret' = NoResult
    /\ UNCHANGED <<map_range, seed_range, value, map, seed_ranges, data, input>>

WorkerEvaluate(i) ==
    /\ pc = "workers"
    /\ workers[i].state = "todo"
    /\ workers' = [workers EXCEPT ![i] =
                      [state |-> "done", result |-> map_seeds(data, <<data.seeds[i]>>)]]
    /\ UNCHANGED <<map_range, seed_range, value, map, seed_ranges, data, input, pc, ret>>

Reduce(i) ==
    /\ pc = "workers"
    /\ workers[i].state = "done"
    /\ workers' = [workers EXCEPT ![i].state = "reduced"]
    /\ ret' = MinResult(ret, workers[i].result)
    /\ UNCHANGED <<map_range, seed_range, value, map, seed_ranges, data, input, pc>>

Join ==
    /\ pc = "workers"
    /\ \A i \in 1..Len(workers) : workers[i].state = "reduced"
    /\ pc' = "joined"
    /\ UNCHANGED <<map_range, seed_range, value, map, seed_ranges, data, input, workers, ret>>

NextWorkers ==
    \/ Spawn
    \/ \E i \in 1..Len(workers) : WorkerEvaluate(i)
    \/ \E i \in 1..Len(workers) : Reduce(i)
    \/ Join

SpecWorkers == InitWorkers /\ [][NextWorkers]_vars

----------------------------------------------------------------------------
(* The u64 arithmetic of the engine. The values of a MapRange and of a
   SeedRange are u64; a subtraction below zero panics in a build with
   overflow checks and wraps in one without. Each call is given with the
   subtractions it evaluates, as pairs <<minuend, subtrahend>>. *)

Underflow == [tag |-> "underflow", val |-> 0]

(* map_seed_range evaluating the subtractions of the right partial case
   before its out-of-bounds returns *)
map_seed_range_subtractions_unguarded(self, sr) ==
    {<<self.source_start + self.range, 1>>,
     <<self.destination_start + self.range - 1,
       IF sr.start >= self.source_start /\ sr.start < self.source_start + self.range
       THEN self.destination_start + (sr.start - self.source_start)
       ELSE sr.start>>}

(* map_value subtracting for every value, contained or not *)
map_value_subtractions_unconditional(self, v) == {<<v, self.source_start>>}

(* value - self.source_start, evaluated when the rule contains the value *)
map_value_subtractions(self, v) ==
    IF ~contains_value(self, v)
    THEN {}
    ELSE {<<v, self.source_start>>}

map_seed_range_subtractions(self, sr) ==
    IF sr.end < self.source_start
    THEN {}
    ELSE IF sr.start >= self.source_start + self.range
    THEN {}
    ELSE IF sr.start >= self.source_start /\ sr.end <= self.source_start + self.range
    THEN map_value_subtractions(self, sr.start)
         \cup map_value_subtractions(self, sr.end)
    ELSE IF sr.start < self.source_start /\ sr.end <= self.source_start + self.range
    THEN LET end == map_value(self, sr.end)
         IN  map_value_subtractions(self, sr.end)
             \cup {<<self.source_start, 1>>}
             \cup map_value_subtractions(self, self.source_start)
             \cup map_value_subtractions(self, end)
    ELSE IF sr.start >= self.source_start /\ sr.end > self.source_start + self.range
    THEN LET start == map_value(self, sr.start)
             map_end == map_value(self, self.source_start + self.range - 1)
         IN  map_value_subtractions(self, sr.start)
             \cup {<<self.source_start + self.range, 1>>}
             \cup map_value_subtractions(self, self.source_start + self.range - 1)
             \cup {<<map_end, start>>}
    ELSE {<<self.source_start, 1>>}
         \cup map_value_subtractions(self, self.source_start)
         \cup {<<self.source_start + self.range, 1>>}
         \cup map_value_subtractions(self, self.source_start + self.range - 1)

underflows(subtractions) == \E s \in subtractions : s[1] < s[2]

Checked(subtractions, v) == IF underflows(subtractions) THEN Underflow ELSE Ok(v)

checked_map_value(self, v) ==
    Checked(map_value_subtractions(self, v), map_value(self, v))

checked_map_seed_range(self, sr) ==
    Checked(map_seed_range_subtractions(self, sr), map_seed_range(self, sr))

CheckedMapSeedRange ==
    /\ pc = "idle"
    /\ pc' = "checked_map_seed_range"
    /\ ret' = checked_map_seed_range(map_range, seed_range)
    /\ UNCHANGED <<map_range, seed_range, value, map, seed_ranges, data, input, workers>>

CheckedMapValue ==
    /\ pc = "idle"
    /\ pc' = "checked_map_value"
    /\ ret' = checked_map_value(map_range, value)
    /\ UNCHANGED <<map_range, seed_range, value, map, seed_ranges, data, input, workers>>

NextArith == CheckedMapSeedRange \/ CheckedMapValue

SpecArith == InitRule /\ [][NextArith]_vars

----------------------------------------------------------------------------
(* The engine on any Map, rules with overlapping sources and rules of length
   0 included: Map::map_seed_ranges, Map::get_mapped_value and
   Data::map_seeds with their u64 arithmetic *)

get_mapped_value_subtractions(self, v) ==
    LET found == find_map_range(self, v)
    IN  IF found = <<>> THEN {} ELSE map_value_subtractions(found[1], v)

map_seed_ranges_subtractions(self, srs) ==
    UNION {map_seed_range_subtractions(self[i], srs[k]) :
              <<i, k>> \in {p \in (1..Len(self)) \X (1..Len(srs)) :
                               map_contained_seed_range(self[p[1]], srs[p[2]])}}

checked_get_mapped_value(self, v) ==
    Checked(get_mapped_value_subtractions(self, v), get_mapped_value(self, v))

checked_map_seed_ranges(self, srs) ==
    Checked(map_seed_ranges_subtractions(self, srs), map_seed_ranges(self, srs))

(* the rules with the lowest or the highest destination *)
EngineRules == {x \in MapRanges : x.destination_start \in {0, MaxVal}}

(* the rule of tests::it_should_map_seed_range *)
map_seed_range_example == MapRange_new(70, 50, 5)

EngineMaps == SeqsUpTo(EngineRules, MaxRules) \cup {<<map_seed_range_example>>}

(* no range, one range, one range ahead of the widest one, and the range
   tests::it_should_map_seed_range splits in three *)
EngineLists ==
    {<<>>}
    \cup {<<sr>> : sr \in SeedRanges}
    \cup {<<sr, SeedRange_new(0, MaxVal + 1)>> : sr \in SeedRanges}
    \cup {<<SeedRange_new(48, 57)>>}

(* a Data whose last Map, the one that gives the list of locations, is the
   Map under test, the other six without a rule *)
InitEngine ==
    /\ map \in EngineMaps
    /\ data = Data_new(<<>>, [k \in 1..NumStages |->
                                 IF k = NumStages THEN map ELSE <<>>])
    /\ seed_ranges = <<>>
    /\ value = 0
    /\ map_range = NoMapRange
    /\ seed_range = NoSeedRange
    /\ input = NoInput
    /\ workers = <<>>
    /\ pc = "idle"
    /\ ret = <<>>

CheckedMapSeedRanges ==
    /\ pc = "idle"
    /\ \E srs \in EngineLists :
          /\ seed_ranges' = srs
          /\ ret' = checked_map_seed_ranges(map, srs)
    /\ pc' = "checked_map_seed_ranges"
    /\ UNCHANGED <<map_range, seed_range, value, map, data, input, workers>>

CheckedGetMappedValue ==
    /\ pc = "idle"
    /\ \E v \in SeedValues :
          /\ value' = v
          /\ ret' = checked_get_mapped_value(map, v)
    /\ pc' = "checked_get_mapped_value"
    /\ UNCHANGED <<map_range, seed_range, map, seed_ranges, data, input, workers>>

EngineMapSeeds ==
    /\ pc = "idle"
    /\ \E srs \in EngineLists :
          /\ seed_ranges' = srs
          /\ ret' = map_seeds(data, srs)
    /\ pc' = "map_seeds"
    /\ UNCHANGED <<map_range, seed_range, value, map, data, input, workers>>

NextEngine == CheckedMapSeedRanges \/ CheckedGetMappedValue \/ EngineMapSeeds

SpecEngine == InitEngine /\ [][NextEngine]_vars

----------------------------------------------------------------------------
(* Evaluations one after the other on one Data. Every method of the engine
   takes &self and the structs hold plain u64 and Vec fields; process hands
   map_seeds a Vec of a clone of a stored seed range. ret is the list of what
   the calls so far returned. *)

MaxCalls == 2

InitCalls ==
    /\ \/ \E stages \in OneRuleStages : \E seeds \in SeedLines :
              data = Data_new(seeds, stages)
       \/ \E seeds \in ExampleSeedLines : data = Data_new(seeds, example1_stages)
    /\ map = data.seed_to_soil_map
    /\ map_range = IF map = <<>> THEN NoMapRange ELSE map[1]
    /\ seed_ranges = <<>>
    /\ seed_range = NoSeedRange
    /\ value = 0
    /\ input = NoInput
    /\ workers = <<>>
    /\ pc = "idle"
    /\ ret = <<>>

(* map_seeds handed the stored seed range itself, which it consumes *)
CallMapSeedsMoved ==
    /\ Len(ret) < MaxCalls
    /\ \E i \in 1..Len(data.seeds) :
          /\ seed_ranges' = <<data.seeds[i]>>
          /\ ret' = Append(ret, map_seeds(data, <<data.seeds[i]>>))
          /\ data' = [data EXCEPT !.seeds =
                         [k \in 1..(Len(@) - 1) |-> IF k < i THEN @[k] ELSE @[k + 1]]]
    /\ pc' = "map_seeds"
    /\ UNCHANGED <<map_range, seed_range, value, map, input, workers>>

CallMapSeeds ==
    /\ Len(ret) < MaxCalls
    /\ \E i \in 1..Len(data.seeds) :
          /\ seed_ranges' = <<data.seeds[i]>>
          /\ ret' = Append(ret, map_seeds(data, <<data.seeds[i]>>))
    /\ pc' = "map_seeds"
    /\ UNCHANGED <<map_range, seed_range, value, map, data, input, workers>>

CallMapSeedRanges ==
    /\ Len(ret) < MaxCalls
    /\ seed_ranges' = data.seeds
    /\ ret' = Append(ret, Ok(map_seed_ranges(map, data.seeds)))
    /\ pc' = "map_seed_ranges"
    /\ UNCHANGED <<map_range, seed_range, value, map, data, input, workers>>

CallGetMappedValue ==
    /\ Len(ret) < MaxCalls
    /\ \E i \in 1..Len(data.seeds) :
          /\ value' = data.seeds[i].start
          /\ ret' = Append(ret, Ok(get_mapped_value(map, data.seeds[i].start)))
    /\ pc' = "get_mapped_value"
    /\ UNCHANGED <<map_range, seed_range, map, seed_ranges, data, input, workers>>

CallMapSeedRange ==
    /\ Len(ret) < MaxCalls
    /\ \E i \in 1..Len(data.seeds) :
          /\ seed_range' = data.seeds[i]
          /\ ret' = Append(ret, Ok(map_seed_range(map_range, data.seeds[i])))
    /\ pc' = "map_seed_range"
    /\ UNCHANGED <<map_range, value, map, seed_ranges, data, input, workers>>

NextCalls ==
    \/ CallMapSeeds
    \/ CallMapSeedRanges
    \/ CallGetMappedValue
    \/ CallMapSeedRange

SpecCalls == InitCalls /\ [][NextCalls]_vars

----------------------------------------------------------------------------
(* part1_attempt_1.rs: a Map is a hash table with one entry per source
   value, filled by Map::from_input. Its numbers are u32: an addition past
   the largest u32 panics in a build with overflow checks and wraps in one
   without. The table is the set of its <<key, value>> entries. *)

(* stands for 2^32 *)
U32_MODULUS == 256

Attempt1_insert(mapped_values, key, v) ==
    {e \in mapped_values : e[1] # key} \cup {<<key, v>>}

(* for i in 0..range of one map line, from index i on *)
RECURSIVE Attempt1_insert_rule(_, _, _, _)
Attempt1_insert_rule(mapped_values, rule, i, overflow_checks) ==
    IF i >= rule.range
    THEN Ok(mapped_values)
    ELSE LET source == rule.source_start + i
             destination == rule.destination_start + i
         IN  IF overflow_checks /\ (source >= U32_MODULUS \/ destination >= U32_MODULUS)
             THEN Panic
             ELSE Attempt1_insert_rule(
                      Attempt1_insert(mapped_values, source % U32_MODULUS,
                                      destination % U32_MODULUS),
                      rule, i + 1, overflow_checks)

(* the while loop of Map::from_input over the map lines, given as rules *)
RECURSIVE Attempt1_Map_from_input(_, _, _)
Attempt1_Map_from_input(mapped_values, rules, overflow_checks) ==
    IF rules = <<>>
    THEN Ok(mapped_values)
    ELSE LET filled == Attempt1_insert_rule(mapped_values, Head(rules), 0, overflow_checks)
         IN  IF filled.tag # "Ok"
             THEN filled
             ELSE Attempt1_Map_from_input(filled.val, Tail(rules), overflow_checks)

Attempt1_get_mapped_value(mapped_values, v) ==
    IF \E e \in mapped_values : e[1] = v
    THEN (CHOOSE e \in mapped_values : e[1] = v)[2]
    ELSE v

(* the u32 values next to 0 and next to the largest u32 *)
TableValues == (0..MaxVal) \cup ((U32_MODULUS - 1 - MaxVal)..(U32_MODULUS - 1))

TableRules ==
    {MapRange_new(d, s, r) : d \in {0, U32_MODULUS - 1}, s \in TableValues,
                             r \in 0..MaxRange}

InitTable ==
    /\ \/ /\ map \in SeqsUpTo(TableRules, MaxRules)
          /\ DisjointRules(map)
          /\ value \in TableValues
       \/ map = seed_to_soil_example /\ value \in ExampleValues
    /\ seed_ranges = <<>>
    /\ map_range = NoMapRange
    /\ seed_range = NoSeedRange
    /\ data = NoData
    /\ input = NoInput
    /\ workers = <<>>
    /\ pc = "idle"
    /\ ret = <<>>

(* Map::from_input on the lines of the rules, then get_mapped_value *)
Attempt1GetMappedValue ==
    /\ pc = "idle"
    /\ pc' = "attempt_1_get_mapped_value"
    /\ \E overflow_checks \in BOOLEAN :
          LET built == Attempt1_Map_from_input({}, map, overflow_checks)
          IN  ret' = IF built.tag # "Ok"
                     THEN built
                     ELSE Ok(Attempt1_get_mapped_value(built.val, value))
    /\ UNCHANGED <<map_range, seed_range, value, map, seed_ranges, data, input, workers>>

Part1TableGetMappedValue ==
    /\ pc = "idle"
    /\ pc' = "part1_get_mapped_value"
    /\ ret' = Ok(Part1_get_mapped_value(map, value))
    /\ UNCHANGED <<map_range, seed_range, value, map, seed_ranges, data, input, workers>>

NextTable == Attempt1GetMappedValue \/ Part1TableGetMappedValue

SpecTable == InitTable /\ [][NextTable]_vars

----------------------------------------------------------------------------
(* One seed value through the seven map sections: process_seed of part1_opt
   on the Maps of maps_from_input, and Data::map_seed of part1 *)

FoldValues == 0..(MaxVal + MaxRange)

InitFold ==
    /\ \/ /\ \E stages \in StageLists(1, MaxDataRules) :
                input = [seeds |-> <<>>, maps |-> stages]
          /\ value \in FoldValues
       \/ /\ input = [seeds |-> example1_seeds, maps |-> example1_stages]
          /\ value \in ExampleValues
    /\ map_range = NoMapRange
    /\ seed_range = NoSeedRange
    /\ map = <<>>
    /\ seed_ranges = <<>>
    /\ data = NoData
    /\ workers = <<>>
    /\ pc = "idle"
    /\ ret = <<>>

OptProcessSeed ==
    /\ pc = "idle"
    /\ pc' = "part1_opt_process_seed"
    /\ ret' = Opt_process_seed(value, Opt_maps_from_input(input.maps))
    /\ UNCHANGED <<map_range, seed_range, value, map, seed_ranges, data, input, workers>>

Part1MapSeed ==
    /\ pc = "idle"
    /\ pc' = "part1_map_seed"
    /\ ret' = Part1_map_seed(Data_new(<<>>, input.maps), value)
    /\ UNCHANGED <<map_range, seed_range, value, map, seed_ranges, data, input, workers>>

NextFold == OptProcessSeed \/ Part1MapSeed

SpecFold == InitFold /\ [][NextFold]_vars

----------------------------------------------------------------------------
(* The lines of one map section: Map::from_input of part2_opt (part1 has the
   same code) with parse::<u64>, and maps_from_input of part1_opt with
   parse::<i64>. A line is the list of its tokens between spaces; a token is
   a run of digits, a run of digits behind a minus sign, or something that
   is no number. A line of no token is the empty line. *)

Token_new(num, neg, abs) == [num |-> num, neg |-> neg, abs |-> abs]

(* str::parse::<u64>: digits only, a minus sign is an invalid digit *)
parse_u64(token) ==
    IF token.num /\ ~token.neg
    THEN Ok(token.abs)
    ELSE Err("CouldNotParseNumber")

(* str::parse::<i64>: digits with or without a minus sign *)
parse_i64(token) ==
    IF token.num
    THEN Ok(IF token.neg THEN 0 - token.abs ELSE token.abs)
    ELSE Err("CouldNotParseNumber")

(* .map(parse).collect::<Result<Vec<_>>>(): the numbers, or the first error *)
RECURSIVE collect_u64(_)
collect_u64(line) ==
    IF line = <<>>
    THEN Ok(<<>>)
    ELSE LET n == parse_u64(Head(line))
             rest == collect_u64(Tail(line))
         IN  IF n.tag # "Ok" THEN n
             ELSE IF rest.tag # "Ok" THEN rest
             ELSE Ok(<<n.val>> \o rest.val)

RECURSIVE collect_i64(_)
collect_i64(line) ==
    IF line = <<>>
    THEN Ok(<<>>)
    ELSE LET n == parse_i64(Head(line))
             rest == collect_i64(Tail(line))
         IN  IF n.tag # "Ok" THEN n
             ELSE IF rest.tag # "Ok" THEN rest
             ELSE Ok(<<n.val>> \o rest.val)

(* part2_opt.rs, the while loop of Map::from_input behind the header: the
   lines up to the first empty one *)
RECURSIVE Map_from_input(_, _)
Map_from_input(mapped_ranges, lines) ==
    IF lines = <<>> \/ Head(lines) = <<>>
    THEN Ok(mapped_ranges)
    ELSE LET numbers == collect_u64(Head(lines))
         IN  IF numbers.tag # "Ok"
             THEN numbers
             ELSE IF Len(numbers.val) # 3
             THEN Err("UnexpectedNumberOfValuesForMap")
             ELSE Map_from_input(
                      Append(mapped_ranges,
                             MapRange_new(numbers.val[1], numbers.val[2], numbers.val[3])),
                      Tail(lines))

(* part1_opt.rs, the while loop of maps_from_input behind the first header,
   to the end of the input: empty lines are skipped *)
RECURSIVE Opt_map_lines(_, _)
Opt_map_lines(mapped_ranges, lines) ==
    IF lines = <<>>
    THEN Ok(mapped_ranges)
    ELSE IF Head(lines) = <<>>
    THEN Opt_map_lines(mapped_ranges, Tail(lines))
    ELSE LET numbers == collect_i64(Head(lines))
         IN  IF numbers.tag # "Ok"
             THEN numbers
             ELSE IF Len(numbers.val) # 3
             THEN Err("UnexpectedNumberOfValuesForMap")
             ELSE Opt_map_lines(
                      Append(mapped_ranges,
                             Opt_MapRange_new(numbers.val[1], numbers.val[2], numbers.val[3])),
                      Tail(lines))

(* the Map pushed at the header and the Map pushed behind the loop *)
Opt_maps_from_lines(lines) ==
    LET mapped_ranges == Opt_map_lines(<<>>, lines)
    IN  IF mapped_ranges.tag # "Ok"
        THEN mapped_ranges
        ELSE Ok(<<<<>>, mapped_ranges.val>>)

Tokens ==
    {Token_new(TRUE, neg, abs) : neg \in BOOLEAN, abs \in 0..MaxVal}
    \cup {Token_new(FALSE, FALSE, 0)}

TokenLines == SeqsUpTo(Tokens, MaxLine)

(* "50 98 2", the first map line of example1.txt *)
example_line ==
    <<Token_new(TRUE, FALSE, 50), Token_new(TRUE, FALSE, 98), Token_new(TRUE, FALSE, 2)>>

(* a section of one line, or of one line ahead of or behind "50 98 2" *)
InitLines ==
    /\ \E line \in TokenLines :
          input \in {[lines |-> <<line>>],
                     [lines |-> <<line, example_line>>],
                     [lines |-> <<example_line, line>>]}
    /\ map_range = NoMapRange
    /\ seed_range = NoSeedRange
    /\ value = 0
    /\ map = <<>>
    /\ seed_ranges = <<>>
    /\ data = NoData
    /\ workers = <<>>
    /\ pc = "idle"
    /\ ret = <<>>

MapFromInput ==
    /\ pc = "idle"
    /\ pc' = "map_from_input"
    /\ ret' = Map_from_input(<<>>, input.lines)
    /\ UNCHANGED <<map_range, seed_range, value, map, seed_ranges, data, input, workers>>

OptMapsFromInput ==
    /\ pc = "idle"
    /\ pc' = "part1_opt_maps_from_input"
    /\ ret' = Opt_maps_from_lines(input.lines)
    /\ UNCHANGED <<map_range, seed_range, value, map, seed_ranges, data, input, workers>>

NextLines == MapFromInput \/ OptMapsFromInput

SpecLines == InitLines /\ [][NextLines]_vars

----------------------------------------------------------------------------
(* Helpers of the properties: the integers an interval or a list covers *)

Span(sr) == sr.start..sr.end

Shifted(sr, k) == SeedRange_new(sr.start + k, sr.end + k)

Offset(self) == self.destination_start - self.source_start

AfterMapSeedRange == pc = "map_seed_range" /\ map_range.range >= 1

(* Pieces of `out` with piece t (0 for none) shifted back by src - dest *)
Unshifted(out, t, self) ==
    [i \in 1..Len(out) |-> IF i = t THEN Shifted(out[i], -Offset(self)) ELSE out[i]]

IsPartitionOf(pieces, sr) ==
    /\ \A i \in 1..Len(pieces) : pieces[i].start <= pieces[i].end
    /\ \A i, j \in 1..Len(pieces) : i # j => Span(pieces[i]) \cap Span(pieces[j]) = {}
    /\ UNION {Span(pieces[i]) : i \in 1..Len(pieces)} = Span(sr)

----------------------------------------------------------------------------
(* C3: partition law for one rule. For a rule with len >= 1 and a candidate
   [a,b], the pieces returned by map_seed_range, with the translated piece
   shifted back by src - dest, are pairwise disjoint and cover exactly a..b. *)
C3_PartitionLaw ==
    AfterMapSeedRange =>
        \E t \in 0..Len(ret) : IsPartitionOf(Unshifted(ret, t, map_range), seed_range)

(* C6: a candidate that straddles the rule (a < src, b > src+len-1) yields
   exactly [a,src-1], [dest,dest+len-1], [src+len,b], in that order. *)
C6_Straddling ==
    (/\ AfterMapSeedRange
     /\ seed_range.start < map_range.source_start
     /\ seed_range.end > SourceEnd(map_range))
    => ret = <<SeedRange_new(seed_range.start, map_range.source_start - 1),
               SeedRange_new(map_range.destination_start,
                             map_range.destination_start + map_range.range - 1),
               SeedRange_new(map_range.source_start + map_range.range, seed_range.end)>>

(* C7: a left-partial candidate (a < src <= b <= src+len-1) yields exactly
   [a,src-1] followed by [dest, b + (dest - src)]. *)
C7_LeftPartial ==
    (/\ AfterMapSeedRange
     /\ seed_range.start < map_range.source_start
     /\ map_range.source_start <= seed_range.end
     /\ seed_range.end <= SourceEnd(map_range))
    => ret = <<SeedRange_new(seed_range.start, map_range.source_start - 1),
               SeedRange_new(map_range.destination_start,
                             seed_range.end + Offset(map_range))>>

(* C8: a right-partial candidate (src <= a <= src+len-1 < b) yields exactly
   [a + (dest - src), dest+len-1] followed by [src+len, b]. *)
C8_RightPartial ==
    (/\ AfterMapSeedRange
     /\ map_range.source_start <= seed_range.start
     /\ seed_range.start <= SourceEnd(map_range)
     /\ SourceEnd(map_range) < seed_range.end)
    => ret = <<SeedRange_new(seed_range.start + Offset(map_range),
                             map_range.destination_start + map_range.range - 1),
               SeedRange_new(map_range.source_start + map_range.range, seed_range.end)>>

(* C9: every SeedRange produced by map_seed_range from a candidate with
   start <= end and a rule with len >= 1 has start <= end. *)
C9_WellFormed ==
    AfterMapSeedRange => \A i \in 1..Len(ret) : ret[i].start <= ret[i].end

(* C16: degenerate split. For a rule with len >= 1 and a candidate [a,b]
   with b < src or a > src+len-1, map_seed_range returns exactly [[a,b]]. *)
C16_DegenerateSplit ==
    (/\ AfterMapSeedRange
     /\ \/ seed_range.end < map_range.source_start
        \/ seed_range.start > SourceEnd(map_range))
    => ret = <<seed_range>>

(* a candidate of two values that starts right after the source passed
   through map_seed_range *)
C16_Witness ==
    /\ AfterMapSeedRange
    /\ seed_range.start = SourceEnd(map_range) + 1
    /\ seed_range.end > seed_range.start
    /\ Offset(map_range) # 0
    /\ ret = <<seed_range>>

(* C17: fully contained. For a rule with len >= 1 and a candidate [a,b] with
   src <= a <= b <= src+len-1, map_seed_range returns exactly
   [[a + (dest - src), b + (dest - src)]]. *)
C17_FullyContained ==
    (/\ AfterMapSeedRange
     /\ map_range.source_start <= seed_range.start
     /\ seed_range.end <= SourceEnd(map_range))
    => ret = <<Shifted(seed_range, Offset(map_range))>>

(* a candidate of two values inside the source of a rule that moves it *)
C17_Witness ==
    /\ AfterMapSeedRange
    /\ map_range.source_start >= 1
    /\ map_range.source_start <= seed_range.start
    /\ seed_range.start < seed_range.end
    /\ seed_range.end <= SourceEnd(map_range)
    /\ Offset(map_range) # 0
    /\ ret = <<Shifted(seed_range, Offset(map_range))>>

----------------------------------------------------------------------------
(* Helpers of the stage properties *)

RECURSIVE TotalLength(_)
TotalLength(srs) ==
    IF srs = <<>> THEN 0
    ELSE (Head(srs).end - Head(srs).start + 1) + TotalLength(Tail(srs))

Covered(srs) == UNION {Span(srs[i]) : i \in 1..Len(srs)}

(* how many ranges of the list contain w *)
Copies(srs, w) == Cardinality({i \in 1..Len(srs) : w \in Span(srs[i])})

(* how many (range, value) pairs of the list are sent to w by the Map *)
Preimages(m, srs, w) ==
    Cardinality({p \in (1..Len(srs)) \X SeedValues :
                    /\ p[2] \in Span(srs[p[1]])
                    /\ get_mapped_value(m, p[2]) = w})

Overlaps(self, sr) == Source(self) \cap Span(sr) # {}

AfterMapSeedRanges ==
    pc = "map_seed_ranges" /\ DisjointRules(map) /\ ProperRules(map)

(* C1: length conservation of a stage. For a Map with pairwise-disjoint
   rules (len >= 1) the total length of the output of map_seed_ranges equals
   the total length of its input. *)
C1_LengthConservation ==
    AfterMapSeedRanges => TotalLength(ret) = TotalLength(seed_ranges)

(* C4: exact image of a stage. The integers covered by the output of
   map_seed_ranges are exactly the images, under get_mapped_value, of the
   integers covered by the input. *)
C4_ExactImage ==
    AfterMapSeedRanges =>
        Covered(ret) = {get_mapped_value(map, v) : v \in Covered(seed_ranges)}

(* C5: remainders stay in the stage. When a candidate overlaps the sources
   of two different rules, every value of the candidate appears in the output
   exactly once, translated by the one rule that contains it (or unchanged). *)
C5_RemaindersStay ==
    (/\ AfterMapSeedRanges
     /\ \E k \in 1..Len(seed_ranges) : \E i, j \in 1..Len(map) :
            /\ i # j
            /\ Overlaps(map[i], seed_ranges[k])
            /\ Overlaps(map[j], seed_ranges[k]))
    => \A w \in 0..(2 * MaxVal + MaxRange + 1) :
            Copies(ret, w) = Preimages(map, seed_ranges, w)

----------------------------------------------------------------------------
(* Stage laws that hold of every Map with disjoint sources *)

IsSingleton(srs) == Len(srs) = 1 /\ srs[1].start = srs[1].end

(* C13: singleton through the pipeline. For every value v and every Map with
   disjoint rules, map_seed_ranges([[v,v]]) is exactly [[g(v),g(v)]] with g
   the Map's get_mapped_value; [79,79] through the seven stages of the
   example gives 81, 81, 81, 74, 78, 78 and 82. *)
C13_Singleton ==
    (/\ pc = "map_seed_ranges"
     /\ DisjointRules(map)
     /\ IsSingleton(seed_ranges))
    => LET g == get_mapped_value(map, seed_ranges[1].start)
       IN  /\ ret = <<SeedRange_new(g, g)>>
           /\ \A k \in 1..NumStages :
                  (/\ map = example1_stages[k]
                   /\ seed_ranges[1].start = single_chain[k])
                  => g = single_chain[k + 1]

(* [78,78] went through the last stage of the example and came out [82,82] *)
C13_Witness ==
    /\ pc = "map_seed_ranges"
    /\ map = example1_stages[NumStages]
    /\ seed_ranges = <<SeedRange_new(78, 78)>>
    /\ ret = <<SeedRange_new(82, 82)>>

(* the permutations of the indices of a rule list of n rules *)
RulePermutations == [n \in 0..4 |-> Permutations(1..n)]

Permuted(m, p) == [i \in 1..Len(m) |-> m[p[i]]]

Range(srs) == {srs[i] : i \in 1..Len(srs)}

(* C14: order independence. For a Map with pairwise-disjoint sources,
   map_seed_ranges returns the same set of output intervals for every
   permutation of the rule list, for every input list. *)
C14_OrderIndependence ==
    (pc = "map_seed_ranges" /\ DisjointRules(map))
    => \A p \in RulePermutations[Len(map)] :
           Range(map_seed_ranges(Permuted(map, p), seed_ranges)) = Range(ret)

(* a candidate that two rules of the Map both touch was mapped, and the
   reversed rule list gives the pieces in another order *)
C14_Witness ==
    /\ pc = "map_seed_ranges"
    /\ DisjointRules(map)
    /\ Len(map) = 2
    /\ \E k \in 1..Len(seed_ranges) :
           /\ Overlaps(map[1], seed_ranges[k])
           /\ Overlaps(map[2], seed_ranges[k])
    /\ map_seed_ranges(<<map[2], map[1]>>, seed_ranges) # ret

(* C15: identity pass-through. When no candidate of the input overlaps the
   source of a rule of the Map (always so when the Map has no rule),
   map_seed_ranges returns the input list unchanged; [[10,20]] through a Map
   with no rules comes back as [[10,20]]. *)
C15_IdentityPassThrough ==
    (/\ pc = "map_seed_ranges"
     /\ \A k \in 1..Len(seed_ranges) : \A i \in 1..Len(map) :
            ~Overlaps(map[i], seed_ranges[k]))
    => ret = seed_ranges

----------------------------------------------------------------------------
(* Point-wise lookup *)

LookupDone ==
    pc \in {"get_mapped_value", "part1_get_mapped_value", "part1_opt_apply_to_value"}

Hits(m, v) ==
    {i \in 1..Len(m) : m[i].source_start <= v /\ v <= SourceEnd(m[i])}

(* the assertions of tests::it_should_parse_map *)
ExampleExpected(v) ==
    CASE v = 0 -> 0 [] v = 1 -> 1 [] v = 48 -> 48 [] v = 49 -> 49
      [] v = 50 -> 52 [] v = 51 -> 53 [] v = 96 -> 98 [] v = 97 -> 99
      [] v = 98 -> 50 [] v = 99 -> 51 [] v = 79 -> 81 [] v = 14 -> 14
      [] v = 55 -> 57 [] v = 13 -> 13

(* C10: point-wise rule lookup. get_mapped_value (part2_opt, part1) and
   apply_to_value (part1_opt) return v + (dest - src) when a rule has
   src <= v <= src+len-1 and v otherwise; src+len-1 is mapped, src+len is not;
   with rules (50,98,2) and (52,50,48): 79->81, 14->14, 55->57, 13->13, 99->51. *)
C10_PointwiseLookup ==
    LookupDone =>
        /\ IF Hits(map, value) = {}
           THEN ret = value
           ELSE \E i \in Hits(map, value) : ret = value + Offset(map[i])
        /\ DisjointRules(map) =>
               \A i \in Hits(map, value) : ret = value + Offset(map[i])
        /\ map = seed_to_soil_example => ret = ExampleExpected(value)

(* the last source value of a rule has been looked up by the three engines *)
C10_Witness ==
    /\ pc = "part1_opt_apply_to_value"
    /\ map = seed_to_soil_example
    /\ value = 99
    /\ ret = 51

----------------------------------------------------------------------------
(* The pipeline against the point-wise engine *)

AllDisjoint(self) ==
    \A k \in 1..NumStages :
        DisjointRules(StagesOf(self)[k]) /\ ProperRules(StagesOf(self)[k])

(* v pushed through the stages from index k on with get_mapped_value *)
RECURSIVE Pointwise(_, _, _)
Pointwise(stages, k, v) ==
    IF k > Len(stages) THEN v
    ELSE Pointwise(stages, k + 1, get_mapped_value(stages[k], v))

PointwiseMin(self, srs) ==
    Min({Pointwise(StagesOf(self), 1, v) : v \in Covered(srs)})

(* C2: the range engine agrees with the point-wise engine. For a Data with
   disjoint rules per stage and a non-empty list of seed ranges, the minimum
   returned by map_seeds / process equals the minimum over every seed value
   of the value pushed through the seven stages with get_mapped_value; on the
   example with [79,93] and [55,68] it is 46. *)
C2_RangeEqualsPointwise ==
    (/\ pc \in {"map_seeds", "process"}
     /\ AllDisjoint(data)
     /\ data.seeds # <<>>)
    => /\ ret = Ok(PointwiseMin(data, data.seeds))
       /\ (/\ StagesOf(data) = example1_stages
           /\ data.seeds = <<SeedRange_new(79, 93), SeedRange_new(55, 68)>>)
          => ret = Ok(46)

----------------------------------------------------------------------------
(* The pipeline as a chain of stages *)

(* srs handed through the stages from index k on, each stage receiving the
   output of the one before *)
RECURSIVE Chain(_, _, _)
Chain(stages, k, srs) ==
    IF k > Len(stages) THEN srs
    ELSE Chain(stages, k + 1, map_seed_ranges(stages[k], srs))

(* C12: composition in declared order. map_seeds(x) is the minimum start of
   the list obtained by chaining map_seed_ranges through seed_to_soil,
   soil_to_fertilizer, fertilizer_to_water, water_to_light,
   light_to_temperature, temperature_to_humidity and humidity_to_location,
   in that order, each stage receiving the previous stage's output. *)
C12_DeclaredOrder ==
    pc = "map_seeds" =>
        LET location == Chain(StagesOf(data), 1, seed_ranges)
        IN  location # <<>> /\ ret = Ok(Min(Starts(location)))

(* [79,79] went through the seven stages of the example and gave 82 *)
C12_Witness ==
    /\ pc = "map_seeds"
    /\ StagesOf(data) = example1_stages
    /\ seed_ranges = <<SeedRange_new(79, 79)>>
    /\ ret = Ok(82)

----------------------------------------------------------------------------
(* process on an input without seeds *)

ProcessDone == pc \in {"part1_process", "part1_opt_process", "part2_opt_process"}

(* C11: no result is an error, never a default. When the seeds line holds no
   seed, process of part1, part1_opt and part2_opt returns
   Err(Error::NoMinValue): it does not panic and does not return 0. *)
C11_NoSeedIsAnError ==
    (ProcessDone /\ input.seeds = <<>>) => ret.tag = "NoMinValue"

----------------------------------------------------------------------------
(* The seed ranges built from the seeds line *)

NumPairs(numbers) == Len(numbers) \div 2

PairStart(numbers, k) == numbers[2 * k - 1]

PairCount(numbers, k) == numbers[2 * k]

(* the values of a half-open Range of part1_opt *)
RangeValues(r) == {v \in 0..(2 * MaxVal + 1) : Range_contains(r, v)}

(* C18: seed pairs become closed intervals. Seeds::from_input turns each
   consecutive pair (start, count) of the seeds line, in order, into the
   interval [start, start+count-1], which contains exactly count values;
   part1_opt builds ranges with the same values from the same line. *)
C18_SeedPairs ==
    (/\ pc \in {"seeds_from_input", "part1_opt_seeds_from_input"}
     /\ Len(input.seeds) % 2 = 0)
    => /\ ret.tag = "Ok"
       /\ Len(ret.val) = NumPairs(input.seeds)
       /\ \A k \in 1..Len(ret.val) :
              LET start == PairStart(input.seeds, k)
                  count == PairCount(input.seeds, k)
              IN  IF pc = "seeds_from_input"
                  THEN /\ ret.val[k] = SeedRange_new(start, start + count - 1)
                       /\ Cardinality(Span(ret.val[k])) = count
                  ELSE RangeValues(ret.val[k]) = start..(start + count - 1)

----------------------------------------------------------------------------
(* Batched and one-by-one evaluation *)

(* the results of map_seeds on each range of the list alone *)
SingletonResults(self, srs) ==
    {map_seeds(self, <<srs[i]>>) : i \in 1..Len(srs)}

(* C19: batched and singleton evaluation agree. For every Data and every
   non-empty list S of seed ranges, the minimum over s in S of
   map_seeds([s]), which is what process computes, equals map_seeds(S)
   evaluated on the whole list as one batch. *)
C19_BatchEqualsSingletons ==
    (pc \in {"map_seeds", "process"} /\ data.seeds # <<>>)
    => /\ \A r \in SingletonResults(data, data.seeds) : r.tag = "Ok"
       /\ ret = Ok(Min({r.val : r \in SingletonResults(data, data.seeds)}))

(* a batch of two ranges was mapped as one list, and the minimum comes from
   the second range *)
C19_Witness ==
    /\ pc = "map_seeds"
    /\ Len(seed_ranges) = 2
    /\ ret = map_seeds(data, <<seed_ranges[2]>>)
    /\ ret # map_seeds(data, <<seed_ranges[1]>>)
    /\ \E k \in 1..NumStages : StagesOf(data)[k] # <<>>

----------------------------------------------------------------------------
(* Workers against the sequential process *)

(* C20: parallel evaluation is order-insensitive. When each seed range is
   evaluated by its own worker against the shared Data and the per-range
   minima are reduced with min, the final result is the same for every
   interleaving of the workers and every order of reduction, and equals the
   sequential result of process. *)
C20_WorkersEqualProcess ==
    pc = "joined" => ret = process(data)

(* two workers with different results were joined and the minimum is the
   result of the second *)
C20_Witness ==
    /\ pc = "joined"
    /\ Len(workers) >= 2
    /\ workers[1].result # workers[2].result
    /\ ret = workers[2].result

----------------------------------------------------------------------------
(* A seeds line with a start that has no count *)

IsError(r) == r.tag \notin {"Ok", "panic"}

(* C25: a seeds line with an odd number of values is reported as an error,
   not a panic: Seeds::from_input of part2_opt and of part1_opt return Err,
   and no Seeds, when the last chunk holds a start without a count. *)
C25_OddLineIsAnError ==
    (/\ pc \in {"seeds_from_input", "part1_opt_seeds_from_input"}
     /\ Len(input.seeds) % 2 = 1)
    => IsError(ret)

----------------------------------------------------------------------------
(* The u64 subtractions of one rule *)

(* C27: for every rule (dest, src, len) with len >= 0 and every candidate
   [a,b] with a <= b, none of the u64 subtractions of MapRange::map_value and
   MapRange::map_seed_range (value - source_start, source_start - 1,
   source_start + range - 1, map_end - start) goes below zero. *)
C27_NoUnderflow ==
    pc \in {"checked_map_seed_range", "checked_map_value"} => ret.tag = "Ok"

(* the right partial case, where all four kinds of subtraction are evaluated *)
C27_Witness ==
    /\ pc = "checked_map_seed_range"
    /\ seed_range.start >= map_range.source_start
    /\ seed_range.end > map_range.source_start + map_range.range
    /\ Cardinality(map_seed_range_subtractions(map_range, seed_range)) >= 3
    /\ ret.tag = "Ok"

----------------------------------------------------------------------------
(* The engine on any Map *)

CheckedStageDone == pc = "checked_map_seed_ranges"

(* C21 as stated: a Map with n rules turns one input range into at most
   n + 1 output ranges. *)
C21_AtMostRulesPlusOne ==
    (CheckedStageDone /\ Len(seed_ranges) = 1)
    => Len(ret.val) <= Len(map) + 1

(* C21: a Map with n rules turns one input range into at most 3 * n output
   ranges, and into exactly one when it has no rule; every rule that takes
   the range gives at most three pieces and the pieces are only
   concatenated, so the result is a finite list. *)
C21_BoundedSplitting ==
    (CheckedStageDone /\ Len(seed_ranges) = 1)
    => /\ ret.tag = "Ok"
       /\ Len(ret.val) <= (IF map = <<>> THEN 1 ELSE 3 * Len(map))

(* one range cut in as many pieces as the bound allows, by at least one rule *)
C21_Witness ==
    /\ CheckedStageDone
    /\ Len(seed_ranges) = 1
    /\ Len(map) >= 1
    /\ Len(ret.val) = 3 * Len(map)

OverlappingRules(m) ==
    \E i, j \in 1..Len(m) : i # j /\ Source(m[i]) \cap Source(m[j]) # {}

(* C23: for a Map in which two rules have overlapping source ranges,
   Map::map_seed_ranges and Map::get_mapped_value return a result for every
   input with start <= end, with no panic and no u64 subtraction below
   zero. *)
C23_OverlapDoesNotCrash ==
    (/\ pc \in {"checked_map_seed_ranges", "checked_get_mapped_value"}
     /\ OverlappingRules(map))
    => ret.tag = "Ok"

(* a range that two overlapping rules both take, with a subtraction made *)
C23_Witness ==
    /\ CheckedStageDone
    /\ seed_ranges # <<>>
    /\ \E i, j \in 1..Len(map) :
          /\ i # j
          /\ Source(map[i]) \cap Source(map[j]) # {}
          /\ map_contained_seed_range(map[i], seed_ranges[1])
          /\ map_contained_seed_range(map[j], seed_ranges[1])
    /\ map_seed_ranges_subtractions(map, seed_ranges) # {}
    /\ ret.tag = "Ok"

(* C26: for every Map and every non-empty input list Map::map_seed_ranges
   returns at least one output range per input range, so the list is not
   empty, and the unwrap of the minimum at the end of Data::map_seeds does
   not panic on a non-empty list. *)
C26_StageNeverEmpties ==
    /\ (CheckedStageDone /\ seed_ranges # <<>>)
       => (ret.tag = "Ok" /\ Len(ret.val) >= Len(seed_ranges))
    /\ (pc = "map_seeds" /\ seed_ranges # <<>>) => ret.tag = "Ok"

(* map_seeds on a range that no rule of a Map with rules takes *)
C26_Witness ==
    /\ pc = "map_seeds"
    /\ seed_ranges # <<>>
    /\ map # <<>>
    /\ ~mapped_flag(map, seed_ranges[1])
    /\ ret.tag = "Ok"

----------------------------------------------------------------------------
(* The Data after construction *)

(* C24: Data::map_seeds, Map::map_seed_ranges, Map::get_mapped_value and
   MapRange::map_seed_range leave every rule, the rule list of every Map and
   the stored seed list as they were, whatever the sequence of
   evaluations. *)
C24_ReadOnly ==
    [][/\ data' = data
       /\ map' = map
       /\ map_range' = map_range]_vars

(* two evaluations in a row on a Data with a stored seed range and a rule in
   its first Map, the second one a map_seeds *)
C24_Witness ==
    /\ Len(ret) = 2
    /\ pc = "map_seeds"
    /\ data.seeds # <<>>
    /\ data.seed_to_soil_map # <<>>
    /\ map_range = data.seed_to_soil_map[1]

----------------------------------------------------------------------------
(* The table of part1_attempt_1 against the rules of part1 *)

(* C28: for every list of rules with pairwise-disjoint source ranges and
   every value v, get_mapped_value of part1_attempt_1, on the table that
   Map::from_input fills, returns what get_mapped_value of part1 returns on
   the rules. *)
C28_TableEqualsRange ==
    pc = "attempt_1_get_mapped_value"
    => ret = Ok(Part1_get_mapped_value(map, value))

----------------------------------------------------------------------------
(* The fold of part1_opt against the seven fields of part1 *)

(* the assertions of tests::it_should_process_seed *)
ProcessSeedExpected(v) ==
    CASE v = 79 -> 82 [] v = 14 -> 43 [] v = 55 -> 86 [] v = 13 -> 35

(* C29: for the same seven map sections and every seed value v,
   process_seed(v, maps_from_input(..)) of part1_opt equals
   Data::map_seed(v) of part1; maps_from_input gives eight Maps, the first
   one without a rule, and folding over the other seven gives the same
   value; on the example 79 -> 82, 14 -> 43, 55 -> 86, 13 -> 35. *)
C29_FoldEqualsMapSeed ==
    pc = "part1_opt_process_seed" =>
        LET maps == Opt_maps_from_input(input.maps)
        IN  /\ ret = Part1_map_seed(Data_new(<<>>, input.maps), value)
            /\ Len(maps) = NumStages + 1
            /\ maps[1] = <<>>
            /\ ret = Opt_process_seed(value, Tail(maps))
            /\ (input.maps = example1_stages /\ value \in {79, 14, 55, 13})
                   => ret = ProcessSeedExpected(value)

(* a seed that the rule of the last section moves *)
C29_Witness ==
    /\ pc = "part1_opt_process_seed"
    /\ input.maps # example1_stages
    /\ input.maps[NumStages] # <<>>
    /\ ret # value

----------------------------------------------------------------------------
(* process of part1_opt against process of part1 *)

(* C30: for every well-formed input, a seeds line of one or more pairs of
   numbers included, process of part1_opt returns what process of part1
   returns, the minimum over every number of the seeds line of its value
   after the seven stages; 35 on the example. *)
C30_OptEqualsPart1 ==
    (/\ pc = "part1_opt_process"
     /\ input.seeds # <<>>
     /\ Len(input.seeds) % 2 = 0)
    => /\ ret = Part1_process(input)
       /\ (input.seeds = example1_seeds /\ input.maps = example1_stages)
              => ret = Ok(35)

----------------------------------------------------------------------------
(* Malformed map lines *)

(* a line of tokens that is not three numbers, or whose third number, the
   length, is below zero *)
Malformed(line) ==
    /\ line # <<>>
    /\ \/ Len(line) # 3
       \/ \E i \in 1..Len(line) : ~line[i].num
       \/ line[3].neg /\ line[3].abs > 0

(* the lines the u64 parser reaches: those ahead of the first empty line *)
RECURSIVE Reached(_)
Reached(lines) ==
    IF lines = <<>> \/ Head(lines) = <<>>
    THEN {}
    ELSE {Head(lines)} \cup Reached(Tail(lines))

(* C22: a map line that does not hold exactly three numbers, or whose length
   is negative, makes construction fail with UnexpectedNumberOfValuesForMap
   or CouldNotParseNumber and no Map is built, in Map::from_input (u64) and
   in maps_from_input of part1_opt (i64). *)
C22_MalformedRuleRejected ==
    /\ (pc = "map_from_input" /\ \E line \in Reached(input.lines) : Malformed(line))
       => ret.tag \in {"UnexpectedNumberOfValuesForMap", "CouldNotParseNumber"}
    /\ (pc = "part1_opt_maps_from_input"
        /\ \E i \in 1..Len(input.lines) : Malformed(input.lines[i]))
       => ret.tag \in {"UnexpectedNumberOfValuesForMap", "CouldNotParseNumber"}

====
